---- MODULE Spec2Model ----
(***************************************************************************)
(* VidAI Studio backend (src/app.py): the in-memory job table, the two     *)
(* background worker pipelines (_process_video, _download_media), the      *)
(* submission and polling routes, and the history file written through     *)
(* _save_json.  Every `with _jobs_lock:` block is one atomic step; the     *)
(* code between two such blocks is split where it touches state another    *)
(* thread can see (the tmp directory, the history file and its .tmp).      *)
(***************************************************************************)
EXTENDS Integers, Sequences, FiniteSets, TLC

\* ------------------------------------------------------------------ bounds
MaxTasks  == 2      \* submissions accepted in one run of the process
NumJobIds == 2      \* distinct values uuid4().hex[:8] is drawn from
MaxClock  == 1      \* seconds of int(time.time()) that elapse
MaxPolls  == 1      \* times genai.get_file may still answer PROCESSING
MaxTextLen == 200    \* characters of a failure text the classifier is tried on

\* ------------------------------------------------------- program constants
MAX_AUDIO_SIZE_MB == 20
MAX_HISTORY_ITEMS == 50

Null == "null"      \* Python None

AVAILABLE_MODELS ==
    << "gemini-1.5-flash", "gemini-1.5-pro", "gemini-2.0-flash-exp", "gemini-pro" >>

\* ------------------------------------------------------------ string tools
Ch(s, i) == SubSeq(s, i, i)

Tail1(s) == SubSeq(s, 2, Len(s))

StartsWith(s, p) == Len(s) >= Len(p) /\ SubSeq(s, 1, Len(p)) = p

\* sub in s
Contains(s, sub) ==
    \E i \in 1..(Len(s) - Len(sub) + 1) : SubSeq(s, i, i + Len(sub) - 1) = sub

Uppers == << "A","B","C","D","E","F","G","H","I","J","K","L","M",
             "N","O","P","Q","R","S","T","U","V","W","X","Y","Z" >>

Lowers == << "a","b","c","d","e","f","g","h","i","j","k","l","m",
             "n","o","p","q","r","s","t","u","v","w","x","y","z" >>

Digits == { "0","1","2","3","4","5","6","7","8","9" }

LowerCh(c) ==
    IF \E i \in 1..26 : Uppers[i] = c
    THEN Lowers[CHOOSE i \in 1..26 : Uppers[i] = c]
    ELSE c

RECURSIVE Lower(_)
\* s.lower(), one half of s after the other
Lower(s) ==
    IF Len(s) <= 1 THEN LowerCh(s)
    ELSE Lower(SubSeq(s, 1, Len(s) \div 2)) \o Lower(SubSeq(s, Len(s) \div 2 + 1, Len(s)))

IsAlpha(c) == \E i \in 1..26 : Lowers[i] = LowerCh(c)

IsDigit(c) == c \in Digits

IsSpace(c) == c \in { " ", "\t", "\n", "\r", "\f" }

RECURSIVE AllCh(_, _)
\* every character of s is in the class cls ("alpha", "digit", "alnum",
\* "label" = alnum or '-', "colonspace" = ':' or whitespace, "nonspace")
InClass(c, cls) ==
    CASE cls = "alpha"      -> IsAlpha(c)
      [] cls = "digit"      -> IsDigit(c)
      [] cls = "alnum"      -> IsAlpha(c) \/ IsDigit(c)
      [] cls = "label"      -> IsAlpha(c) \/ IsDigit(c) \/ c = "-"
      [] cls = "host"       -> IsAlpha(c) \/ IsDigit(c) \/ c = "-" \/ c = "."
      [] cls = "colonspace" -> c = ":" \/ IsSpace(c)
      [] cls = "nonspace"   -> ~IsSpace(c)
      [] cls = "nondigit"   -> ~IsDigit(c)
      [] cls = "word"       -> IsAlpha(c) \/ IsDigit(c) \/ c = "_" \/ IsSpace(c) \/ c = "-"
AllCh(s, cls) ==
    IF Len(s) = 0 THEN TRUE
    ELSE InClass(Ch(s, 1), cls) /\ AllCh(Tail1(s), cls)

RECURSIVE RunLen(_, _)
\* length of the longest prefix of s made of characters of the class
RunLen(s, cls) ==
    IF Len(s) = 0 \/ ~InClass(Ch(s, 1), cls) THEN 0
    ELSE 1 + RunLen(Tail1(s), cls)

RECURSIVE SplitDots(_)
\* s.split(".")
SplitDots(s) ==
    LET n == RunLen(s, "label")
    IN  IF n = Len(s) THEN << s >>
        ELSE << SubSeq(s, 1, n) >> \o SplitDots(SubSeq(s, n + 2, Len(s)))

RECURSIVE Strip(_)
RECURSIVE RStrip(_)
RStrip(s) ==
    IF Len(s) > 0 /\ IsSpace(Ch(s, Len(s))) THEN RStrip(SubSeq(s, 1, Len(s) - 1)) ELSE s
Strip(s) ==
    IF Len(s) > 0 /\ IsSpace(Ch(s, 1)) THEN Strip(Tail1(s)) ELSE RStrip(s)

\* ------------------------------------------------------------ pure helpers
PlatformTable ==
    << <<"facebook.com", "facebook">>, <<"fb.watch", "facebook">>, <<"fb.com", "facebook">>,
       <<"youtube.com", "youtube">>,   <<"youtu.be", "youtube">>,
       <<"instagram.com", "instagram">>,
       <<"tiktok.com", "tiktok">>,
       <<"twitter.com", "twitter">>,   <<"x.com", "twitter">> >>

detect_platform(url) ==
    LET u    == Lower(url)
        hits == { i \in DOMAIN PlatformTable : Contains(u, PlatformTable[i][1]) }
    IN  IF hits = {} THEN "other"
        ELSE PlatformTable[CHOOSE i \in hits : \A j \in hits : i <= j][2]

\* one label of a host name: [A-Z0-9](?:[A-Z0-9-]{0,61}[A-Z0-9])?
LabelOK(l) ==
    /\ Len(l) >= 1 /\ Len(l) <= 63
    /\ AllCh(l, "label")
    /\ InClass(Ch(l, 1), "alnum")
    /\ InClass(Ch(l, Len(l)), "alnum")

\* (?:label\.)+[A-Z]{2,6}\.?
DomainOK(h) ==
    LET h1     == IF Len(h) > 0 /\ Ch(h, Len(h)) = "." THEN SubSeq(h, 1, Len(h) - 1) ELSE h
        labels == SplitDots(h1)
        n      == Len(labels)
    IN  /\ n >= 2
        /\ \A i \in 1..(n - 1) : LabelOK(labels[i])
        /\ Len(labels[n]) >= 2 /\ Len(labels[n]) <= 6 /\ AllCh(labels[n], "alpha")

\* \d{1,3}\.\d{1,3}\.\d{1,3}\.\d{1,3}
IPv4OK(h) ==
    LET parts == SplitDots(h)
    IN  /\ Len(parts) = 4
        /\ \A i \in 1..4 : Len(parts[i]) >= 1 /\ Len(parts[i]) <= 3 /\ AllCh(parts[i], "digit")

\* (?::\d+)?(?:/?|[/?]\S+)$
TailOK(t) ==
    LET nd == IF StartsWith(t, ":") THEN RunLen(Tail1(t), "digit") ELSE 0
        r  == IF nd > 0 THEN SubSeq(t, nd + 2, Len(t)) ELSE t
    IN  \/ r = ""
        \/ r = "/"
        \/ /\ Len(r) >= 2
           /\ Ch(r, 1) \in { "/", "?" }
           /\ AllCh(Tail1(r), "nonspace")

validate_url(url) ==
    LET u    == Lower(url)
        rest == IF StartsWith(u, "https://") THEN SubSeq(u, 9, Len(u))
                ELSE IF StartsWith(u, "http://") THEN SubSeq(u, 8, Len(u))
                ELSE Null
        n    == RunLen(rest, "host")
        host == SubSeq(rest, 1, n)
    IN  /\ rest # Null
        /\ DomainOK(host) \/ host = "localhost" \/ IPv4OK(host)
        /\ TailOK(SubSeq(rest, n + 1, Len(rest)))

\* the text between "retry" and the first digit: [_ ]?(?:in|delay)?[:\s]*
RetryGapOK(g) ==
    \E a \in { "", "_", " " }, b \in { "", "in", "delay" } :
        /\ StartsWith(g, a \o b)
        /\ AllCh(SubSeq(g, Len(a \o b) + 1, Len(g)), "colonspace")

RECURSIVE RetryWait(_)
\* re.search(r"retry[_ ]?(?:in|delay)?[:\s]*(\d+)", text, re.IGNORECASE),
\* group 1 of the leftmost match, or "60" when there is none; s is lower-cased
RetryWait(s) ==
    IF Len(s) < 6 THEN "60"
    ELSE LET r  == SubSeq(s, 6, Len(s))
             g  == RunLen(r, "nondigit")
             d  == RunLen(SubSeq(r, g + 1, Len(r)), "digit")
         IN  IF StartsWith(s, "retry") /\ d >= 1 /\ RetryGapOK(SubSeq(r, 1, g))
             THEN SubSeq(r, g + 1, g + d)
             ELSE RetryWait(Tail1(s))

\* a slip: the authentication rule is tried before the rate-limit rule
parse_api_error_AuthFirst(text, model_id) ==
    LET low == Lower(text)
    IN  IF Contains(text, "401") \/ Contains(low, "api_key")
        THEN "Invalid API Key. Check your key in Settings."
        ELSE IF Contains(text, "429") \/ Contains(low, "quota")
        THEN "Rate limit reached for " \o model_id \o ". Wait ~" \o RetryWait(low)
                 \o "s or switch model."
        ELSE IF Contains(text, "403") \/ Contains(low, "permission")
        THEN "Permission denied. Your API key may not have access to this model."
        ELSE IF Contains(text, "404") \/ Contains(low, "not found")
        THEN "Model '" \o model_id \o "' not found. Select a different model."
        ELSE IF Contains(low, "safety") \/ Contains(low, "blocked")
        THEN "Content blocked by safety filters. Try a different video."
        ELSE IF Len(text) > 200 THEN SubSeq(text, 1, 200) ELSE text

parse_api_error(text, model_id) ==
    LET low == Lower(text)
    IN  IF Contains(text, "429") \/ Contains(low, "quota")
        THEN "Rate limit reached for " \o model_id \o ". Wait ~" \o RetryWait(low)
                 \o "s or switch model."
        ELSE IF Contains(text, "401") \/ Contains(low, "api_key")
        THEN "Invalid API Key. Check your key in Settings."
        ELSE IF Contains(text, "403") \/ Contains(low, "permission")
        THEN "Permission denied. Your API key may not have access to this model."
        ELSE IF Contains(text, "404") \/ Contains(low, "not found")
        THEN "Model '" \o model_id \o "' not found. Select a different model."
        ELSE IF Contains(low, "safety") \/ Contains(low, "blocked")
        THEN "Content blocked by safety filters. Try a different video."
        ELSE IF Len(text) > 200 THEN SubSeq(text, 1, 200) ELSE text

\* dict.update(fields): the keys given replace or add, the others stay
Update(rec, fields) == fields @@ rec

\* dict.get(key) with the default None
Get(rec, key) == IF key \in DOMAIN rec THEN rec[key] ELSE Null

\* truthiness of a str-or-None value
Truthy(v) == v # Null /\ v # ""

UpperCh(c) ==
    IF \E i \in 1..26 : Lowers[i] = c
    THEN Uppers[CHOOSE i \in 1..26 : Lowers[i] = c]
    ELSE c

\* str.capitalize()
Capitalize(s) == IF Len(s) = 0 THEN "" ELSE UpperCh(Ch(s, 1)) \o Lower(Tail1(s))

RECURSIVE KeepCh(_, _)
\* re.sub of every character outside the class by ''
KeepCh(s, cls) ==
    IF Len(s) = 0 THEN ""
    ELSE (IF InClass(Ch(s, 1), cls) THEN Ch(s, 1) ELSE "") \o KeepCh(Tail1(s), cls)

\* re.sub(r'[^\w\s\-]', '', video_title).strip()[:60] or "download"
SafeTitle(title) ==
    LET t == Strip(KeepCh(title, "word"))
        c == IF Len(t) > 60 THEN SubSeq(t, 1, 60) ELSE t
    IN  IF c = "" THEN "download" ELSE c

RECURSIVE WordCount(_)
\* len(text.split())
WordCount(s) ==
    IF Len(s) = 0 THEN 0
    ELSE IF IsSpace(Ch(s, 1)) THEN WordCount(Tail1(s))
    ELSE 1 + WordCount(SubSeq(s, RunLen(s, "nonspace") + 1, Len(s)))

RECURSIVE LastDot(_)
\* position of the last '.' of s, 0 when there is none
LastDot(s) ==
    IF Len(s) = 0 THEN 0
    ELSE IF Ch(s, Len(s)) = "." THEN Len(s)
    ELSE LastDot(SubSeq(s, 1, Len(s) - 1))

\* os.path.splitext(path)[1].lstrip(".")
SplitExt(path) ==
    LET d == LastDot(path)
    IN  IF d <= 1 THEN "" ELSE SubSeq(path, d + 1, Len(path))

\* ------------------------------------------------------------------ inputs
JobIds == { "0000000" \o ToString(i) : i \in 1..NumJobIds }

Urls == { "", "notaurl", " https://youtube.com/watch?v=abc " }

\* the request's "model"; Null when the request carries none
ModelInputs == { Null, "gemini-1.5-pro" }

Formats == { "video", "audio", "gif" }

ApiKeys == { " ", "AIza-key" }

Titles == { "My Video!" }

Texts == { "## Summary\n- point one" }

FileSizes == { 20, 21 }     \* MB

VideoExts == { "mp4", "webm" }

DownloadExcs == { "ERROR: Private video" }

\* str() of the FileNotFoundError of open, upload or os.replace
FileGone == "[Errno 2] No such file or directory"

ApiExcs == { "404 models/x is not found", "429 quota exceeded, retry in 30s" }

UploadStates == { "PROCESSING", "ACTIVE", "FAILED" }

Terminal == { "done", "error" }

\* --------------------------------------------------------------- the state
VARIABLES
    config,     \* config.json: the keys set so far ("api_key", "default_model")
    jobs,       \* _jobs: job id -> job record
    tasks,      \* the daemon threads started so far, with their locals
    clock,      \* int(time.time())
    files,      \* TEMP_DIR: path -> [size, by]
    histFile,   \* content of history.json, NoFile while it does not exist
    tmpFile,    \* content of history.json.tmp, NoFile while it does not exist
    overlap     \* history: has a save_history_entry begun while another was under way

vars == << config, jobs, tasks, clock, files, histFile, tmpFile, overlap >>

NoFile == [kind |-> "absent", data |-> << >>]

EmptyFile == [kind |-> "empty", data |-> << >>]     \* zero bytes

CorruptFile == [kind |-> "corrupt", data |-> << >>] \* bytes that are not JSON

JsonFile(list) == [kind |-> "json", data |-> list]

NoTask ==
    [kind |-> "none", pc |-> "finished", job_id |-> Null, url |-> Null, model_id |-> Null,
     fmt |-> Null, ts |-> -1, audio_path |-> Null, video_title |-> Null,
     result_text |-> Null, upstate |-> Null, polls |-> 0, history |-> << >>, fd |-> "none",
     exc |-> Null, job |-> << >>]

\* a thread that has returned: its locals are gone; what it was started for and
\* the
\* second it read and the text it generated stay on record
Finished(task) ==
    [NoTask EXCEPT !.kind = task.kind, !.job_id = task.job_id, !.ts = task.ts,
                   !.result_text = task.result_text]

Init ==
    /\ config = << >>
    /\ jobs = << >>
    /\ tasks = << >>
    /\ clock = 0
    /\ files = << >>
    /\ histFile = NoFile
    /\ overlap = FALSE
    /\ tmpFile = NoFile

\* ------------------------------------------------------------ job registry
_update_job(job_id, fields) ==
    IF job_id \in DOMAIN jobs
    THEN [jobs EXCEPT ![job_id] = Update(@, fields)]
    ELSE jobs

\* a slip: the table rebuilt around the new record, the others dropped
SetJob_Forgetful(job_id, record) == (job_id :> record)

\* _jobs[job_id] = record
SetJob(job_id, record) ==
    [k \in DOMAIN jobs \cup { job_id } |-> IF k = job_id THEN record ELSE jobs[k]]

NewAiRecord(url, platform) ==
    [status |-> "running", step |-> "queued", progress |-> 0, message |-> "Starting...",
     result |-> Null, error |-> Null, video_title |-> Null,
     url |-> url, platform |-> platform]

NewDownloadRecord(url, platform) ==
    [status |-> "running", step |-> "queued", progress |-> 0,
     message |-> "Starting download...",
     result |-> Null, error |-> Null, video_title |-> Null,
     url |-> url, platform |-> platform,
     download_path |-> Null, download_filename |-> Null, download_size_mb |-> Null]

ErrorFields(text) ==
    [status |-> "error", step |-> "failed", progress |-> 0, error |-> text]

\* ------------------------------------------------------------------ routes
\* POST /api/config: the status code answered
post_config_code(key) == IF Strip(key) = "" THEN 400 ELSE 200

ConfigCode == [key \in ApiKeys |-> post_config_code(key)]

post_config(key) ==
    /\ config' = IF ConfigCode[key] = 200 THEN Update(config, [api_key |-> key]) ELSE config
    /\ UNCHANGED << jobs, tasks, clock, files, histFile, tmpFile, overlap >>

\* what the routes compute from a request's "url": the stripped text, whether
\* validate_url accepts it, and its platform
UrlInfo ==
    [u \in Urls |-> [url |-> Strip(u), ok |-> validate_url(Strip(u)),
                     platform |-> detect_platform(Strip(u))]]

\* a slip: the two checks of the url left out
generate_code_NoUrlCheck(data_url) ==
    IF ~Truthy(Get(config, "api_key")) THEN 401 ELSE 200

\* POST /api/generate: the status code of the validation, 200 when it passes
generate_code(data_url) ==
    IF ~Truthy(Get(config, "api_key")) THEN 401
    ELSE IF UrlInfo[data_url].url = "" THEN 400
    ELSE IF ~UrlInfo[data_url].ok THEN 400
    ELSE 200

generate(data_url, data_model) ==
    LET url      == UrlInfo[data_url].url
        model_id == IF data_model # Null THEN data_model
                    ELSE IF "default_model" \in DOMAIN config THEN config.default_model
                    ELSE "gemini-2.0-flash"
    IN  IF generate_code(data_url) # 200
        THEN UNCHANGED vars
        ELSE /\ Len(tasks) < MaxTasks
             /\ \E job_id \in JobIds :
                  /\ jobs' = SetJob(job_id, NewAiRecord(url, UrlInfo[data_url].platform))
                  /\ tasks' = Append(tasks,
                        [NoTask EXCEPT !.kind = "ai", !.pc = "start", !.job_id = job_id,
                                       !.url = url, !.model_id = model_id])
             /\ config' = Update(config, [default_model |-> model_id])
             /\ UNCHANGED << clock, files, histFile, tmpFile, overlap >>

\* POST /api/download: the status code of the validation, 200 when it passes
start_download_code(data_url, fmt) ==
    IF UrlInfo[data_url].url = "" THEN 400
    ELSE IF ~UrlInfo[data_url].ok THEN 400
    ELSE IF fmt \notin { "video", "audio" } THEN 400
    ELSE 200

start_download(data_url, fmt) ==
    LET url == UrlInfo[data_url].url
    IN  IF start_download_code(data_url, fmt) # 200
        THEN UNCHANGED vars
        ELSE /\ Len(tasks) < MaxTasks
             /\ \E job_id \in JobIds :
                  /\ jobs' = SetJob(job_id, NewDownloadRecord(url, UrlInfo[data_url].platform))
                  /\ tasks' = Append(tasks,
                        [NoTask EXCEPT !.kind = "dl", !.pc = "start", !.job_id = job_id,
                                       !.url = url, !.fmt = fmt])
             /\ UNCHANGED << config, clock, files, histFile, tmpFile, overlap >>

\* GET /api/status/<job_id>: the answer in the current state
StatusResponse(job_id) ==
    IF job_id \in DOMAIN jobs
    THEN [code |-> 200, body |-> jobs[job_id]]
    ELSE [code |-> 404, body |-> [error |-> "Job not found."]]

\* the route reads the table under the lock and changes nothing
job_status(job_id) ==
    /\ StatusResponse(job_id).code \in { 200, 404 }
    /\ UNCHANGED vars

\* GET /api/download/file/<job_id>: the answer in the current state
DownloadResponse(job_id) ==
    LET job == IF job_id \in DOMAIN jobs THEN jobs[job_id] ELSE << >>
    IN  IF job_id \notin DOMAIN jobs
        THEN [code |-> 404, error |-> "Job not found."]
        ELSE IF Get(job, "status") # "done" \/ ~Truthy(Get(job, "download_path"))
        THEN [code |-> 400, error |-> "File not ready."]
        ELSE IF job.download_path \notin DOMAIN files
        THEN [code |-> 410, error |-> "File expired. Please download again."]
        ELSE [code |-> 200, path |-> job.download_path,
              download_name |-> IF "download_filename" \in DOMAIN job
                                THEN job.download_filename ELSE "download"]

\* the route reads the table and the directory and changes nothing
serve_download(job_id) ==
    /\ DownloadResponse(job_id).code \in { 200, 400, 404, 410 }
    /\ UNCHANGED vars

\* something outside the program (the user, a cleaner of the temp directory)
\* removes a downloaded file: the case line 556 answers with 410
FileExpires(path) ==
    /\ path \in DOMAIN files
    /\ StartsWith(path, "tmp/dl_")
    /\ files' = [p \in DOMAIN files \ { path } |-> files[p]]
    /\ UNCHANGED << config, jobs, tasks, clock, histFile, tmpFile, overlap >>

\* one second passes
Tick ==
    /\ clock < MaxClock
    /\ clock' = clock + 1
    /\ UNCHANGED << config, jobs, tasks, files, histFile, tmpFile, overlap >>

\* ------------------------------------------------- AI worker: _process_video
AudioPath(ts) == "tmp/audio_" \o ToString(ts) \o ".mp3"

\* f"{size_mb:.1f}" and round(size_mb, 1) of a whole number of MB
SizeText(mb) == ToString(mb) \o ".0"

\* a slip: every failure of the first call is retried
NotFoundSignal_Always(text) == TRUE

\* a failure text that carries the "model not found" signal of the inner handler
NotFoundSignal(text) == Contains(Lower(text), "not found") \/ Contains(text, "404")

\* the texts of the exceptions a task can meet, and the values model_id can have
ExcTexts == DownloadExcs \cup ApiExcs \cup { FileGone }

ModelIds ==
    (ModelInputs \ { Null }) \cup { "gemini-2.0-flash", "gemini-1.5-flash", "gemini-pro (fallback)" }

\* parse_api_error, WordCount, SafeTitle and detect_platform on those values
ErrorMessage == [text \in ExcTexts, m \in ModelIds |-> parse_api_error(text, m)]

HasNotFoundSignal == [text \in ExcTexts |-> NotFoundSignal(text)]

WordsOf == [text \in Texts |-> WordCount(text)]

SafeTitleOf == [title \in Titles |-> SafeTitle(title)]

PlatformOf == [u \in { UrlInfo[d].url : d \in Urls } |-> detect_platform(u)]

\* a slip: the caller's model is used unchecked
ValidModel_Unchecked(model_id) == model_id

\* lines 254-256: the caller's model when it is in the allow-list, else the default
ValidModel(model_id) ==
    IF \E i \in DOMAIN AVAILABLE_MODELS : AVAILABLE_MODELS[i] = model_id
    THEN model_id
    ELSE "gemini-1.5-flash"

\* a slip: no handler, the exception ends the thread and nothing is recorded
ExceptHandler_Uncaught(t, text, model_id) ==
    /\ UNCHANGED jobs
    /\ tasks' = [tasks EXCEPT ![t].pc = "crashed"]

\* the `except Exception as exc` clause of task t, entered with the text of exc
\* while the local model_id has the value given
ExceptHandler(t, text, model_id) ==
    /\ jobs' = _update_job(tasks[t].job_id, ErrorFields(ErrorMessage[text, model_id]))
    /\ tasks' = [tasks EXCEPT ![t].pc = "finally", ![t].model_id = model_id,
                              ![t].upstate = Null, ![t].polls = 0]

AiTask(t, pc) == t \in DOMAIN tasks /\ tasks[t].kind = "ai" /\ tasks[t].pc = pc

\* lines 176-177
AiBegin(t) ==
    /\ AiTask(t, "start")
    /\ jobs' = _update_job(tasks[t].job_id,
                  [step |-> "downloading", progress |-> 10,
                   message |-> "Downloading audio from video..."])
    /\ tasks' = [tasks EXCEPT ![t].pc = "download"]
    /\ UNCHANGED << config, clock, files, histFile, tmpFile, overlap >>

\* the file yt-dlp writes to while it downloads into out_template
PartPath(ts) == "tmp/audio_" \o ToString(ts) \o ".part"

\* lines 180-197: ts = int(time.time()) and the yt-dlp call, which writes
\* tmp/audio_<ts>.mp3, or returns without it, or raises, with or without the
\* part of the download it had written
AiDownload(t) ==
    /\ AiTask(t, "download")
    /\ LET path == AudioPath(clock)
       IN  \/ \E size \in FileSizes, title \in Titles :
                /\ files' = (path :> [size |-> size, by |-> t]) @@ files
                /\ tasks' = [tasks EXCEPT ![t].ts = clock, ![t].video_title = title,
                                          ![t].pc = "check"]
                /\ UNCHANGED jobs
           \/ \E title \in Titles :
                /\ tasks' = [tasks EXCEPT ![t].ts = clock, ![t].video_title = title,
                                          ![t].pc = "check"]
                /\ UNCHANGED << jobs, files >>
           \/ \E text \in DownloadExcs :
                /\ \/ UNCHANGED files
                   \/ files' = (PartPath(clock) :> [size |-> 1, by |-> t]) @@ files
                /\ ExceptHandler(t, text, tasks[t].model_id)
    /\ UNCHANGED << config, clock, histFile, tmpFile, overlap >>

\* a slip: a file of exactly the cap is refused
TooLarge_Inclusive(size_mb) == size_mb >= MAX_AUDIO_SIZE_MB

\* line 207
TooLarge(size_mb) == size_mb > MAX_AUDIO_SIZE_MB

\* lines 199-214
AiCheck(t) ==
    /\ AiTask(t, "check")
    /\ LET path == AudioPath(tasks[t].ts)
       IN  IF path \notin DOMAIN files
           THEN /\ jobs' = _update_job(tasks[t].job_id,
                     ErrorFields("Could not download audio. Check if the video is public."))
                /\ tasks' = [tasks EXCEPT ![t].audio_path = path, ![t].pc = "finally"]
           ELSE IF TooLarge(files[path].size)
           THEN /\ jobs' = _update_job(tasks[t].job_id,
                     ErrorFields("Audio too large (" \o SizeText(files[path].size)
                                 \o " MB). Max " \o ToString(MAX_AUDIO_SIZE_MB) \o " MB."))
                /\ tasks' = [tasks EXCEPT ![t].audio_path = path, ![t].pc = "finally"]
           ELSE /\ jobs' = _update_job(tasks[t].job_id,
                     [progress |-> 30, step |-> "uploading",
                      message |-> "Uploading audio to AI engine..."])
                /\ tasks' = [tasks EXCEPT ![t].audio_path = path, ![t].pc = "upload"]
    /\ UNCHANGED << config, clock, files, histFile, tmpFile, overlap >>

\* lines 217-221: genai.upload_file returns a file in some state, or raises
AiUpload(t) ==
    /\ AiTask(t, "upload")
    /\ \/ /\ tasks[t].audio_path \in DOMAIN files
          /\ \E st \in UploadStates :
               tasks' = [tasks EXCEPT ![t].upstate = st, ![t].pc = "poll"]
          /\ jobs' = _update_job(tasks[t].job_id,
                        [progress |-> 50, step |-> "processing",
                         message |-> "AI is analyzing the audio..."])
       \/ /\ tasks[t].audio_path \in DOMAIN files
          /\ \E text \in ApiExcs : ExceptHandler(t, text, tasks[t].model_id)
       \/ /\ tasks[t].audio_path \notin DOMAIN files
          /\ ExceptHandler(t, FileGone, tasks[t].model_id)
    /\ UNCHANGED << config, clock, files, histFile, tmpFile, overlap >>

\* lines 223-225: one turn of the loop while the state is PROCESSING
AiPoll(t) ==
    /\ AiTask(t, "poll")
    /\ tasks[t].upstate = "PROCESSING"
    /\ \/ /\ \E st \in UploadStates :
               /\ st = "PROCESSING" => tasks[t].polls < MaxPolls
               /\ tasks' = [tasks EXCEPT ![t].upstate = st,
                              ![t].polls = IF st = "PROCESSING" THEN @ + 1 ELSE @]
          /\ UNCHANGED jobs
       \/ \E text \in ApiExcs : ExceptHandler(t, text, tasks[t].model_id)
    /\ UNCHANGED << config, clock, files, histFile, tmpFile, overlap >>

\* lines 227-234: the loop has ended
AiProcessed(t) ==
    /\ AiTask(t, "poll")
    /\ tasks[t].upstate # "PROCESSING"
    /\ IF tasks[t].upstate = "FAILED"
       THEN /\ jobs' = _update_job(tasks[t].job_id,
                          ErrorFields("AI failed to process the audio file."))
            /\ tasks' = [tasks EXCEPT ![t].pc = "finally", ![t].upstate = Null,
                                      ![t].polls = 0]
       ELSE /\ jobs' = _update_job(tasks[t].job_id,
                          [progress |-> 70, step |-> "generating",
                           message |-> "Generating content with AI..."])
            /\ tasks' = [tasks EXCEPT ![t].pc = "generate", ![t].upstate = Null,
                                      ![t].polls = 0]
    /\ UNCHANGED << config, clock, files, histFile, tmpFile, overlap >>

\* lines 273-276: the update of step 4
DoneFields(result_text, video_title) ==
    [status |-> "done", step |-> "done", progress |-> 100,
     message |-> "Content generated successfully!",
     result |-> result_text, video_title |-> video_title]

\* lines 262-271: the first generation call raised an exception of this text
GenerateRaises(t, text) ==
    LET model_id == ValidModel(tasks[t].model_id)
    IN  IF HasNotFoundSignal[text]
        THEN /\ jobs' = _update_job(tasks[t].job_id,
                  [message |-> "Model unavailable, trying fallback (Gemini 1.0 Pro)..."])
             /\ tasks' = [tasks EXCEPT ![t].model_id = model_id, ![t].pc = "fallback"]
        ELSE ExceptHandler(t, text, model_id)

\* lines 254-276: the first generation call, on the validated model
AiGenerate(t) ==
    /\ AiTask(t, "generate")
    /\ LET model_id == ValidModel(tasks[t].model_id)
       IN  \/ \E text \in Texts :
                /\ jobs' = _update_job(tasks[t].job_id,
                              DoneFields(text, tasks[t].video_title))
                /\ tasks' = [tasks EXCEPT ![t].model_id = model_id,
                                          ![t].result_text = text, ![t].pc = "hist_load"]
           \/ \E text \in ApiExcs : GenerateRaises(t, text)
    /\ UNCHANGED << config, clock, files, histFile, tmpFile, overlap >>

\* lines 266-276: the retry on gemini-pro, inside the inner handler
AiFallback(t) ==
    /\ AiTask(t, "fallback")
    /\ \/ \E text \in Texts :
            /\ jobs' = _update_job(tasks[t].job_id,
                          DoneFields(text, tasks[t].video_title))
            /\ tasks' = [tasks EXCEPT ![t].model_id = "gemini-pro (fallback)",
                                      ![t].result_text = text, ![t].pc = "hist_load"]
       \/ \E text \in ApiExcs : ExceptHandler(t, text, tasks[t].model_id)
    /\ UNCHANGED << config, clock, files, histFile, tmpFile, overlap >>

\* --------------------------------------------------------- the history file
\* a slip: the stored list is not read, every write starts from []
load_history_Fresh == << >>

\* _load_json(HISTORY_FILE, list): the stored list, [] when the file is
\* missing or is not JSON
load_history == IF histFile.kind = "json" THEN histFile.data ELSE << >>

\* history[:n]
Take(list, n) == SubSeq(list, 1, IF Len(list) < n THEN Len(list) ELSE n)

\* lines 279-290: the entry of task t
HistoryEntry(t) ==
    [id |-> tasks[t].job_id, url |-> tasks[t].url,
     platform |-> PlatformOf[tasks[t].url],
     video_title |-> tasks[t].video_title, model |-> tasks[t].model_id,
     result |-> tasks[t].result_text, word_count |-> WordsOf[tasks[t].result_text]]

\* what a file holds after `content` is written from offset 0 through a
\* descriptor opened with "w": the content when nothing else was written since
\* the truncation; over bytes another descriptor wrote meanwhile, the content
\* or, when the other bytes reach further, a mix that is not JSON
Written(old, content) ==
    IF old.kind = "empty" THEN { content } ELSE { content, CorruptFile }

\* thread u is between the load and the end of the os.replace of save_history_entry
InSave(u) == tasks[u].kind = "ai" /\ tasks[u].pc \in { "hist_open", "hist_dump", "hist_replace" }

\* lines 97-98: history = load_history(); history.insert(0, entry)
HistLoad(t) ==
    /\ AiTask(t, "hist_load")
    /\ tasks' = [tasks EXCEPT ![t].history = << HistoryEntry(t) >> \o load_history,
                              ![t].pc = "hist_open"]
    /\ overlap' = (overlap \/ \E u \in DOMAIN tasks : u # t /\ InSave(u))
    /\ UNCHANGED << config, jobs, clock, files, histFile, tmpFile >>

\* line 77: open(path + ".tmp", "w") creates the file or truncates the one there
HistOpen(t) ==
    /\ AiTask(t, "hist_open")
    /\ tmpFile' = EmptyFile
    /\ tasks' = [tasks EXCEPT ![t].fd = "tmp", ![t].pc = "hist_dump"]
    /\ UNCHANGED << config, jobs, clock, files, histFile, overlap >>

\* lines 78, 99: json.dump(history[:MAX_HISTORY_ITEMS], f) and the close; the
\* descriptor still names the file it opened, wherever that file is now
HistDump(t) ==
    /\ AiTask(t, "hist_dump")
    /\ LET content == JsonFile(Take(tasks[t].history, MAX_HISTORY_ITEMS))
       IN  CASE tasks[t].fd = "tmp" ->
                  /\ tmpFile' \in Written(tmpFile, content)
                  /\ UNCHANGED histFile
             [] tasks[t].fd = "hist" ->
                  /\ histFile' \in Written(histFile, content)
                  /\ UNCHANGED tmpFile
             [] OTHER -> UNCHANGED << histFile, tmpFile, overlap >>
    /\ tasks' = [tasks EXCEPT ![t].fd = "none", ![t].history = << >>,
                              ![t].pc = "hist_replace"]
    /\ UNCHANGED << config, jobs, clock, files, overlap >>

\* line 79: os.replace(tmp, path); FileNotFoundError when another thread has
\* already renamed the .tmp away
HistReplace(t) ==
    /\ AiTask(t, "hist_replace")
    /\ IF tmpFile = NoFile
       THEN /\ ExceptHandler(t, FileGone, tasks[t].model_id)
            /\ UNCHANGED << histFile, tmpFile, overlap >>
       ELSE /\ histFile' = tmpFile
            /\ tmpFile' = NoFile
            /\ tasks' = [u \in DOMAIN tasks |->
                         IF u = t THEN [tasks[u] EXCEPT !.pc = "finally"]
                         ELSE IF tasks[u].fd = "tmp" THEN [tasks[u] EXCEPT !.fd = "hist"]
                         ELSE IF tasks[u].fd = "hist" THEN [tasks[u] EXCEPT !.fd = "orphan"]
                         ELSE tasks[u]]
            /\ UNCHANGED jobs
    /\ UNCHANGED << config, clock, files, overlap >>

\* lines 296-301: the finally clause
AiFinally(t) ==
    /\ AiTask(t, "finally")
    /\ files' = IF tasks[t].audio_path # Null /\ tasks[t].audio_path \in DOMAIN files
                THEN [p \in DOMAIN files \ { tasks[t].audio_path } |-> files[p]]
                ELSE files
    /\ tasks' = [tasks EXCEPT ![t] = Finished(tasks[t])]
    /\ UNCHANGED << config, jobs, clock, histFile, tmpFile, overlap >>

\* ------------------------------------------- download worker: _download_media
DlTask(t, pc) == t \in DOMAIN tasks /\ tasks[t].kind = "dl" /\ tasks[t].pc = pc

DlPrefix(ts) == "tmp/dl_" \o ToString(ts) \o "."

\* lines 311-312
DlBegin(t) ==
    /\ DlTask(t, "start")
    /\ jobs' = _update_job(tasks[t].job_id,
                  [step |-> "downloading", progress |-> 20,
                   message |-> "Downloading " \o tasks[t].fmt \o " from video..."])
    /\ tasks' = [tasks EXCEPT ![t].pc = "download"]
    /\ UNCHANGED << config, clock, files, histFile, tmpFile, overlap >>

\* lines 376-379: the handler of the download worker
DlExceptHandler(t, text) ==
    /\ jobs' = _update_job(tasks[t].job_id,
                  ErrorFields("Download failed: "
                              \o (IF Len(text) > 150 THEN SubSeq(text, 1, 150) ELSE text)))
    /\ tasks' = [tasks EXCEPT ![t] = Finished(tasks[t])]

\* lines 348-374: find the file in the directory as it is now and report
DlReport(t, ts, title, dir) ==
    LET fmt        == tasks[t].fmt
        candidates == { p \in DOMAIN dir : StartsWith(p, DlPrefix(ts)) }
        choices    == IF fmt = "audio" THEN { DlPrefix(ts) \o "mp3" }
                      ELSE IF candidates = {} THEN { Null } ELSE candidates
    IN  \E dl_path \in choices :
          LET ext == IF fmt = "audio" THEN "mp3" ELSE SplitExt(dl_path)
          IN  /\ jobs' =
                   IF dl_path = Null \/ dl_path \notin DOMAIN dir
                   THEN _update_job(tasks[t].job_id,
                          ErrorFields("Download failed. The video may be private or unavailable."))
                   ELSE _update_job(tasks[t].job_id,
                          [status |-> "done", step |-> "done", progress |-> 100,
                           message |-> Capitalize(fmt) \o " ready to download ("
                                       \o SizeText(dir[dl_path].size) \o " MB)",
                           video_title |-> title,
                           download_path |-> dl_path,
                           download_filename |-> SafeTitleOf[title] \o "." \o ext,
                           download_size_mb |-> SizeText(dir[dl_path].size)])
              /\ tasks' = [tasks EXCEPT ![t] = Finished([tasks[t] EXCEPT !.ts = ts])]

\* lines 315-379: ts = int(time.time()), the yt-dlp call, then the report
DlDownload(t) ==
    /\ DlTask(t, "download")
    /\ LET exts == IF tasks[t].fmt = "audio" THEN { "mp3" } ELSE VideoExts
       IN  \/ \E ext \in exts, size \in FileSizes, title \in Titles :
                /\ files' = (DlPrefix(clock) \o ext :> [size |-> size, by |-> t]) @@ files
                /\ DlReport(t, clock, title, files')
           \/ \E title \in Titles :
                /\ UNCHANGED files
                /\ DlReport(t, clock, title, files)
           \/ \E text \in DownloadExcs :
                /\ UNCHANGED files
                /\ DlExceptHandler(t, text)
    /\ UNCHANGED << config, clock, histFile, tmpFile, overlap >>

\* ------------------------------------------------------- the specification
Next ==
    \/ \E key \in ApiKeys : post_config(key)
    \/ \E url \in Urls, model \in ModelInputs : generate(url, model)
    \/ \E url \in Urls, fmt \in Formats : start_download(url, fmt)
    \/ \E job_id \in JobIds : job_status(job_id)
    \/ \E job_id \in JobIds : serve_download(job_id)
    \/ \E path \in DOMAIN files : FileExpires(path)
    \/ Tick
    \/ \E t \in 1..MaxTasks : AiBegin(t)
    \/ \E t \in 1..MaxTasks : AiDownload(t)
    \/ \E t \in 1..MaxTasks : AiCheck(t)
    \/ \E t \in 1..MaxTasks : AiUpload(t)
    \/ \E t \in 1..MaxTasks : AiPoll(t)
    \/ \E t \in 1..MaxTasks : AiProcessed(t)
    \/ \E t \in 1..MaxTasks : AiGenerate(t)
    \/ \E t \in 1..MaxTasks : AiFallback(t)
    \/ \E t \in 1..MaxTasks : HistLoad(t)
    \/ \E t \in 1..MaxTasks : HistOpen(t)
    \/ \E t \in 1..MaxTasks : HistDump(t)
    \/ \E t \in 1..MaxTasks : HistReplace(t)
    \/ \E t \in 1..MaxTasks : AiFinally(t)
    \/ \E t \in 1..MaxTasks : DlBegin(t)
    \/ \E t \in 1..MaxTasks : DlDownload(t)

Spec == Init /\ [][Next]_vars

\* every step a started thread can take
TaskStep(t) ==
    \/ AiBegin(t) \/ AiDownload(t) \/ AiCheck(t) \/ AiUpload(t) \/ AiPoll(t)
    \/ AiProcessed(t) \/ AiGenerate(t) \/ AiFallback(t)
    \/ HistLoad(t) \/ HistOpen(t) \/ HistDump(t) \/ HistReplace(t) \/ AiFinally(t)
    \/ DlBegin(t) \/ DlDownload(t)

\* the operating system schedules every started thread again and again
FairSpec == Spec /\ \A t \in 1..MaxTasks : WF_vars(TaskStep(t))

\* ------------------------------------------ the status route, step by step
\* lines 474-475 of job_status, in a thread of the server: the lookup under
\* _jobs_lock; the local `job` is the dict found, kept here as it is now; an
\* unknown id is answered 404 at once
JobStatusLookup(job_id) ==
    /\ Len(tasks) < MaxTasks
    /\ tasks' = Append(tasks,
          IF job_id \in DOMAIN jobs
          THEN [NoTask EXCEPT !.kind = "poll", !.pc = "respond", !.job_id = job_id,
                              !.job = jobs[job_id]]
          ELSE [NoTask EXCEPT !.kind = "poll", !.job_id = job_id])
    /\ UNCHANGED << config, jobs, clock, files, histFile, tmpFile, overlap >>

\* what jsonify(job) serialises: the dict `job` refers to, as it is by now
JobStatusBody(t) == jobs[tasks[t].job_id]

\* lines 476-478: the lock has been released; jsonify(job) reads the fields
JobStatusRespond(t) ==
    /\ t \in DOMAIN tasks /\ tasks[t].kind = "poll" /\ tasks[t].pc = "respond"
    /\ JobStatusBody(t).status \in { "running", "done", "error" }
    /\ tasks' = [tasks EXCEPT ![t] = Finished(tasks[t])]
    /\ UNCHANGED << config, jobs, clock, files, histFile, tmpFile, overlap >>

PollNext ==
    \/ Next
    \/ \E job_id \in JobIds : JobStatusLookup(job_id)
    \/ \E t \in 1..MaxTasks : JobStatusRespond(t)

PollSpec == Init /\ [][PollNext]_vars

\* ------------------------------------------- the error classifier by itself
\* the words the rules of parse_api_error look for, two for each rule, in the
\* order of the rules; the words matched on text.lower() in other cases
Markers ==
    << "429", "Quota", "401", "API_KEY", "403", "Permission",
       "404", "Not Found", "SAFETY", "Blocked" >>

RECURSIVE MarkerText(_, _)
\* the words of the set, from the i-th on, each after a blank
MarkerText(set, i) ==
    IF i > Len(Markers) THEN ""
    ELSE (IF i \in set THEN " " \o Markers[i] ELSE "") \o MarkerText(set, i + 1)

RECURSIVE Rep(_, _)
\* str * n
Rep(str, n) ==
    IF n = 0 THEN ""
    ELSE LET half == Rep(str, n \div 2)
         IN  half \o half \o (IF n % 2 = 1 THEN str ELSE "")

\* str(exc) of the exceptions the classifier is tried on: every set of words,
\* with and without a retry hint, and texts without any word, short and long
FailureInputs ==
    { [markers |-> set, hint |-> hint,
       text |-> "failure:" \o MarkerText(set, 1)
                \o (IF hint THEN " retry in 30s" ELSE "")] :
        set \in SUBSET (1..Len(Markers)), hint \in BOOLEAN }
    \cup { [markers |-> {}, hint |-> FALSE, text |-> Rep("x", n)] :
             n \in { MaxTextLen - 1, MaxTextLen, MaxTextLen + 1 } }

\* a worker in whose try block a call has just raised exc
ClassifierInit ==
    \E in \in FailureInputs, model_id \in { "gemini-1.5-flash", "gemini-pro" } :
       LET url == "https://youtube.com/watch?v=abc"
       IN  /\ config = [api_key |-> "AIza-key", default_model |-> model_id]
           /\ jobs = ("00000001" :>
                        Update(NewAiRecord(url, "youtube"),
                               [progress |-> 70, step |-> "generating",
                                message |-> "Generating content with AI..."]))
           /\ tasks = << [NoTask EXCEPT !.kind = "ai", !.pc = "except",
                                        !.job_id = "00000001", !.url = url,
                                        !.model_id = model_id, !.ts = 0,
                                        !.audio_path = AudioPath(0),
                                        !.video_title = "My Video!",
                                        !.exc = in.text] >>
           /\ clock = 0
           /\ files = (AudioPath(0) :> [size |-> 20, by |-> 1])
           /\ histFile = NoFile
           /\ tmpFile = NoFile
           /\ overlap = FALSE

\* lines 292-295: the handler of the worker, on the exception it holds
AiExcept(t) ==
    /\ AiTask(t, "except")
    /\ jobs' = _update_job(tasks[t].job_id,
                  ErrorFields(parse_api_error(tasks[t].exc, tasks[t].model_id)))
    /\ tasks' = [tasks EXCEPT ![t].pc = "finally"]
    /\ UNCHANGED << config, clock, files, histFile, tmpFile, overlap >>

ClassifierNext ==
    \/ \E t \in 1..MaxTasks : AiExcept(t)
    \/ \E t \in 1..MaxTasks : AiFinally(t)

ClassifierSpec == ClassifierInit /\ [][ClassifierNext]_vars

\* ------------------------------------------------------------------ claims
\* no two submissions drew the same job id
NoSharedIds ==
    \A t, u \in DOMAIN tasks : t # u => tasks[t].job_id # tasks[u].job_id

\* the ids that submissions have returned
Submitted == { tasks[t].job_id : t \in DOMAIN tasks }

\* C1 (as claimed): once a record is done or error no step changes any field
\* of it -- stated for the runs in which every submission drew an id of its
\* own, so that the only writer of a record is its own worker; the steps of
\* _process_video after the done update are among those covered.
C1_TerminalRecordNeverChanges ==
    [][ NoSharedIds' =>
          \A id \in DOMAIN jobs :
             jobs[id].status \in Terminal => jobs'[id] = jobs[id] ]_vars

\* C2 (as claimed): progress is an integer in 0..100 and, from one state of a
\* record to the next in which the status is running in both, never decreases.
C2_ProgressNeverDecreases ==
    [][ \A id \in DOMAIN jobs :
           /\ jobs'[id].progress \in 0..100
           /\ (jobs[id].status = "running" /\ jobs'[id].status = "running")
                 => jobs'[id].progress >= jobs[id].progress ]_vars

\* C3 (as claimed): progress = 100 iff done, progress = 0 whenever error, and
\* the error field is set iff error, in every state of every record.
C3_ProgressStatusErrorAgree ==
    \A id \in DOMAIN jobs :
       /\ jobs[id].progress = 100 <=> jobs[id].status = "done"
       /\ jobs[id].status = "error" => jobs[id].progress = 0
       /\ jobs[id].error # Null <=> jobs[id].status = "error"

\* a record created by start_download carries the download fields
IsDownloadRecord(rec) == "download_path" \in DOMAIN rec

\* C4 (as claimed): an AI record has a result iff it is done and a download
\* record has a download_path iff it is done -- stated for the runs in which
\* every submission drew an id of its own.
C4_PayloadIffDone ==
    NoSharedIds =>
       \A id \in DOMAIN jobs :
          IF IsDownloadRecord(jobs[id])
          THEN jobs[id].download_path # Null <=> jobs[id].status = "done"
          ELSE jobs[id].result # Null <=> jobs[id].status = "done"

\* C5: a status lookup answers 404 exactly for the ids no submission has
\* returned; a submitted id is answered with its record ever after.
C5_NotFoundIffNeverSubmitted ==
    \A id \in JobIds :
       /\ StatusResponse(id).code = 404 <=> id \notin Submitted
       /\ id \in Submitted => StatusResponse(id) = [code |-> 200, body |-> jobs[id]]

\* C5 witness: one id was submitted and its worker has returned, another id
\* was never submitted.
C5_Witness ==
    /\ \E t \in DOMAIN tasks : tasks[t].pc = "finished"
    /\ \E id \in JobIds : id \notin Submitted

\* what the claim calls a submission that fails validation
BadUrl(data_url) == Strip(data_url) = "" \/ ~validate_url(Strip(data_url))

BadUrlOf == [u \in Urls |-> BadUrl(u)]

KeyUnset == "api_key" \notin DOMAIN config \/ config.api_key \in { Null, "" }

\* the step appended one thread, at its first instruction, for the id whose
\* record is now the initial one; no other record changed
Accepted(kind) ==
    /\ Len(tasks') = Len(tasks) + 1
    /\ SubSeq(tasks', 1, Len(tasks)) = tasks
    /\ LET new == tasks'[Len(tasks')]
       IN  /\ new.kind = kind /\ new.pc = "start"
           /\ new.job_id \in DOMAIN jobs'
           /\ jobs'[new.job_id].status = "running"
           /\ jobs'[new.job_id].step = "queued"
           /\ jobs'[new.job_id].progress = 0
           /\ DOMAIN jobs' = DOMAIN jobs \cup { new.job_id }
           /\ \A id \in DOMAIN jobs : id # new.job_id => jobs'[id] = jobs[id]

\* C6: a submission that fails validation is answered with an error code and
\* leaves the job table and the threads as they were; one that passes creates
\* one record in running/queued/0 and one thread that has not yet run.
C6_ValidationBeforeAnyJob ==
    [][ /\ \A u \in Urls, m \in ModelInputs :
             generate(u, m) =>
                IF KeyUnset \/ BadUrlOf[u]
                THEN generate_code(u) \in { 400, 401 } /\ UNCHANGED << jobs, tasks >>
                ELSE generate_code(u) = 200 /\ Accepted("ai")
        /\ \A u \in Urls, f \in Formats :
             start_download(u, f) =>
                IF BadUrlOf[u] \/ f \notin { "video", "audio" }
                THEN start_download_code(u, f) = 400 /\ UNCHANGED << jobs, tasks >>
                ELSE start_download_code(u, f) = 200 /\ Accepted("dl") ]_vars

\* C6 witness: both kinds of submission were accepted, and their records are
\* still as created while their threads have not run.
C6_Witness ==
    /\ Len(tasks) = 2
    /\ tasks[1].kind = "ai" /\ tasks[2].kind = "dl"
    /\ \A t \in 1..2 : tasks[t].pc = "start" /\ jobs[tasks[t].job_id].step = "queued"

\* C7 (as claimed): a submission never overwrites or resets a record that is
\* already in the table.
C7_SubmissionNeverOverwrites ==
    [][ Len(tasks') > Len(tasks) =>
           \A id \in DOMAIN jobs : jobs'[id] = jobs[id] ]_vars

\* C8: under fair scheduling every started worker returns, and its record
\* comes to done or error.
C8_EveryTaskEnds ==
    \A t \in 1..MaxTasks :
       (t \in DOMAIN tasks)
          ~> (t \in DOMAIN tasks /\ tasks[t].pc = "finished"
              /\ jobs[tasks[t].job_id].status \in Terminal)

\* C8 witness: a worker has returned after an exception, raised by a
\* collaborator or by the history write, was turned into an error record.
C8_Witness ==
    \E t \in DOMAIN tasks :
       /\ tasks[t].kind = "ai" /\ tasks[t].pc = "finished"
       /\ jobs[tasks[t].job_id].status = "error"
       /\ jobs[tasks[t].job_id].error = FileGone
       /\ tasks[t].result_text # Null

\* C9 (as claimed): the stored history has at most MAX_HISTORY_ITEMS entries
\* and, right after a job's history write has completed, begins with that
\* job's entry.
C9_EntryFirstAfterWrite ==
    [][ \A t \in DOMAIN tasks :
           (HistReplace(t) /\ tmpFile # NoFile) =>
              /\ histFile'.kind = "json"
              /\ Len(histFile'.data) \in 1..MAX_HISTORY_ITEMS
              /\ histFile'.data[1] = HistoryEntry(t) ]_vars

\* the AI workers that generated a text and have returned
Succeeded(t) ==
    tasks[t].kind = "ai" /\ tasks[t].pc = "finished" /\ tasks[t].result_text # Null

HasEntry(t) ==
    \E i \in DOMAIN load_history :
       /\ load_history[i].id = tasks[t].job_id
       /\ load_history[i].result = tasks[t].result_text

\* C10 (as claimed): every AI job that reached done has its entry in the
\* stored history once its task has finished, however the history writes
\* interleave.
C10_NoEntryLost ==
    NoSharedIds => \A t \in DOMAIN tasks : Succeeded(t) => HasEntry(t)

\* C10 (amended): the same, in the runs in which no save_history_entry began
\* while another was between its load and the end of its os.replace.
C10_NoEntryLostWithoutOverlap ==
    ~overlap => \A t \in DOMAIN tasks : Succeeded(t) => HasEntry(t)

\* C10 witness: two AI jobs wrote their entries one after the other and both
\* entries are stored.
C10_Witness ==
    /\ ~overlap
    /\ Len(tasks) = 2
    /\ \A t \in 1..2 : Succeeded(t) /\ HasEntry(t)
    /\ Len(load_history) = 2

\* the record of id carries a download_path
HasDownloadPath(id) == Truthy(Get(jobs[id], "download_path"))

\* C11 (as claimed): retrieving a download answers 404 for an unknown id, 400
\* while the record is not done or carries no download_path -- every id an AI
\* submission returned among them --, 410 when the record is done and its file
\* is gone, and the file under the record's download_filename otherwise.
C11_DownloadRetrieval ==
    /\ \A id \in JobIds :
          LET r == DownloadResponse(id)
          IN  /\ id \notin DOMAIN jobs => r.code = 404
              /\ id \in DOMAIN jobs =>
                    /\ (jobs[id].status # "done" \/ ~HasDownloadPath(id)) => r.code = 400
                    /\ (jobs[id].status = "done" /\ HasDownloadPath(id)
                           /\ jobs[id].download_path \notin DOMAIN files) => r.code = 410
                    /\ (jobs[id].status = "done" /\ HasDownloadPath(id)
                           /\ jobs[id].download_path \in DOMAIN files) =>
                          /\ r.code = 200
                          /\ r.path = jobs[id].download_path
                          /\ r.download_name = jobs[id].download_filename
    /\ \A t \in DOMAIN tasks :
          tasks[t].kind = "ai" => DownloadResponse(tasks[t].job_id).code = 400

\* the step in which AI worker t wrote the done update
ReachesDone(t) == (AiGenerate(t) \/ AiFallback(t)) /\ tasks'[t].pc = "hist_load"

\* C12 (as claimed): at the step in which an AI job reaches done its record
\* carries the generated text, the number of whitespace-separated tokens of
\* that text and the video title, and the history entry composed for the job
\* carries the same three values and the platform detected from the URL.
C12_DoneRecordAndEntry ==
    [][ \A t \in DOMAIN tasks :
          /\ ReachesDone(t) =>
                LET rec == jobs'[tasks[t].job_id]
                IN  /\ rec.result = tasks'[t].result_text
                    /\ rec.video_title = tasks[t].video_title
                    /\ "word_count" \in DOMAIN rec
                    /\ rec.word_count = WordCount(rec.result)
          /\ HistLoad(t) =>
                LET entry == tasks'[t].history[1]
                IN  /\ entry.id = tasks[t].job_id
                    /\ entry.result = tasks[t].result_text
                    /\ entry.word_count = WordCount(tasks[t].result_text)
                    /\ entry.video_title = tasks[t].video_title
                    /\ entry.platform = detect_platform(tasks[t].url) ]_vars

\* the steps of the AI pipeline in the order claimed, and the progress claimed
\* at the entry of each
StepOrder == << "queued", "downloading", "uploading", "processing", "generating", "done" >>

StepProgress == << 0, 10, 30, 50, 70, 100 >>

\* the ids AI submissions have returned
AiIds == { tasks[t].job_id : t \in { u \in DOMAIN tasks : tasks[u].kind = "ai" } }

\* the record of id goes from one step to another as the claim allows
StepAllowed(id) ==
    \/ jobs'[id].step = jobs[id].step
    \/ jobs'[id].step = "failed" /\ jobs'[id].progress = 0
    \/ \E i \in 1..5 :
          /\ jobs[id].step = StepOrder[i]
          /\ jobs'[id].step = StepOrder[i + 1]
          /\ jobs'[id].progress = StepProgress[i + 1]

\* C13 (as claimed): the step of an AI job's record starts at queued with
\* progress 0 and then only moves to the next step of the order, with that
\* step's progress, or to failed with progress 0.
C13_StepsInOrder ==
    [][ \A id \in AiIds' :
          IF id \in AiIds
          THEN StepAllowed(id)
          ELSE jobs'[id].step = "queued" /\ jobs'[id].progress = 0 ]_vars

TooLargeMessage(size_mb) ==
    "Audio too large (" \o ToString(size_mb) \o ".0 MB). Max 20 MB."

\* C14: at the size check of an AI job, a file above 20 MB sends the record to
\* error / failed / 0 with the size message and the worker to its cleanup,
\* from where it never reaches the upload; a file of 20 MB or less sends the
\* record to uploading and the worker to the upload call.
C14_OversizeNeverUploads ==
    [][ \A t \in DOMAIN tasks :
          /\ (AiCheck(t) /\ AudioPath(tasks[t].ts) \in DOMAIN files) =>
                LET size_mb == files[AudioPath(tasks[t].ts)].size
                    rec     == jobs'[tasks[t].job_id]
                IN  IF size_mb > 20
                    THEN /\ rec.status = "error" /\ rec.step = "failed"
                         /\ rec.progress = 0
                         /\ rec.error = TooLargeMessage(size_mb)
                         /\ tasks'[t].pc = "finally"
                    ELSE /\ rec.step = "uploading" /\ rec.progress = 30
                         /\ tasks'[t].pc = "upload"
          /\ (tasks[t].kind = "ai" /\ tasks[t].pc \in { "finally", "finished" }) =>
                tasks'[t].pc \in { "finally", "finished" } ]_vars

\* C14 witness: one AI job was refused for its 21 MB file and has returned,
\* another is uploading its 20 MB file.
C14_Witness ==
    /\ Len(tasks) = 2
    /\ tasks[1].job_id # tasks[2].job_id
    /\ tasks[1].pc = "finished"
    /\ jobs[tasks[1].job_id].error = TooLargeMessage(21)
    /\ tasks[2].pc = "upload"
    /\ tasks[2].audio_path \in DOMAIN files
    /\ files[tasks[2].audio_path].size = 20

\* the files in the temp directory that AI worker t downloaded
AudioFilesOf(t) ==
    { p \in DOMAIN files : StartsWith(p, "tmp/audio_") /\ files[p].by = t }

\* C15 (as claimed): once an AI worker has returned, by whatever exit, no
\* audio file it downloaded is left in the temp directory, the part of a
\* download that raised included.
C15_NoAudioFileLeft ==
    \A t \in DOMAIN tasks :
       (tasks[t].kind = "ai" /\ tasks[t].pc = "finished") => AudioFilesOf(t) = {}

\* C16 (as claimed): no two jobs of a pipeline use the same temporary name,
\* so the cleanup of an AI job removes only a file that job produced and the
\* download_path a download job reports is a file that job produced.
C16_TempPathsUnique ==
    [][ \A t \in DOMAIN tasks :
          /\ \A u \in DOMAIN tasks :
                (u # t /\ tasks'[u].kind = tasks'[t].kind
                   /\ tasks'[t].ts >= 0 /\ tasks'[u].ts >= 0) => tasks'[u].ts # tasks'[t].ts
          /\ AiFinally(t) =>
                \A p \in DOMAIN files \ DOMAIN files' : files[p].by = t
          /\ (DlDownload(t) /\ jobs'[tasks[t].job_id].status = "done") =>
                files'[jobs'[tasks[t].job_id].download_path].by = t ]_vars

\* the failure texts that carry the claim's "model not found" signal
SignalTexts ==
    { text \in ApiExcs : Contains(Lower(text), "not found") \/ Contains(text, "404") }

\* where a worker is once its generation has ended, well or not
AfterGeneration ==
    { "hist_load", "hist_open", "hist_dump", "hist_replace", "finally", "finished" }

\* C17: the generation call is made once, and once more on the fallback model
\* exactly when the first call failed with the not-found signal; any other
\* failure of the first call, and any failure of the retry, writes the error
\* record and goes to the cleanup; after a success no further call is made.
C17_OneRetryOnNotFound ==
    [][ \A t \in DOMAIN tasks :
          /\ tasks'[t].pc = "generate" => tasks[t].pc \in { "poll", "generate" }
          /\ tasks'[t].pc = "fallback" => tasks[t].pc \in { "generate", "fallback" }
          /\ (tasks[t].kind = "ai" /\ tasks[t].pc \in AfterGeneration) =>
                tasks'[t].pc \in AfterGeneration
          /\ AiGenerate(t) =>
                /\ tasks'[t].pc \in { "hist_load", "fallback", "finally" }
                /\ \A text \in ApiExcs :
                      GenerateRaises(t, text) =>
                         IF text \in SignalTexts
                         THEN /\ tasks'[t].pc = "fallback"
                              /\ jobs'[tasks[t].job_id].status = jobs[tasks[t].job_id].status
                         ELSE /\ tasks'[t].pc = "finally"
                              /\ jobs'[tasks[t].job_id].status = "error"
          /\ AiFallback(t) =>
                /\ tasks'[t].pc \in { "hist_load", "finally" }
                /\ tasks'[t].pc = "hist_load" => jobs'[tasks[t].job_id].status = "done"
                /\ tasks'[t].pc = "finally" => jobs'[tasks[t].job_id].status = "error" ]_vars

\* C17 witness: a worker has returned after its retry on the fallback model
\* failed, and another after its first call failed otherwise.
C17_Witness ==
    /\ Len(tasks) = 2
    /\ tasks[1].job_id # tasks[2].job_id
    /\ \A t \in 1..2 : tasks[t].kind = "ai" /\ tasks[t].pc = "finished"
                         /\ jobs[tasks[t].job_id].status = "error"
    /\ jobs[tasks[1].job_id].message = "Model unavailable, trying fallback (Gemini 1.0 Pro)..."
    /\ jobs[tasks[2].job_id].message = "Generating content with AI..."

\* the allow-list of the claim
AllowList == { "gemini-1.5-flash", "gemini-1.5-pro", "gemini-2.0-flash-exp", "gemini-pro" }

\* C18: the model of an AI job's first generation call is in the allow-list:
\* the model the job was submitted with when that is in the list, otherwise
\* gemini-1.5-flash; and when that call succeeds the record becomes done,
\* whatever model the job was submitted with.
C18_FirstCallOnAllowedModel ==
    [][ \A t \in DOMAIN tasks :
          AiGenerate(t) =>
             LET given == tasks[t].model_id
                 used  == tasks'[t].model_id
             IN  /\ used \in AllowList
                 /\ used = (IF given \in AllowList THEN given ELSE "gemini-1.5-flash")
                 /\ tasks'[t].pc = "hist_load" =>
                       /\ jobs'[tasks[t].job_id].status = "done"
                       /\ jobs'[tasks[t].job_id].result = tasks'[t].result_text ]_vars

\* C18 witness: a job submitted with gemini-2.0-flash, which is not in the
\* list, is done and its history entry names gemini-1.5-flash.
C18_Witness ==
    /\ Len(tasks) = 1
    /\ tasks[1].kind = "ai"
    /\ Get(config, "default_model") = "gemini-2.0-flash"
    /\ tasks[1].pc = "finished"
    /\ jobs[tasks[1].job_id].status = "done"
    /\ Len(load_history) = 1
    /\ load_history[1].model = "gemini-1.5-flash"

\* the rule the claim lets decide: the first, in the order rate-limit,
\* authentication, permission, not-found, content-safety, one of whose two
\* words is in the text; 0 when the text has none
FirstRule(markers) ==
    IF markers = {} THEN 0
    ELSE LET first == CHOOSE i \in markers : \A j \in markers : i <= j
         IN  (first + 1) \div 2

\* the message the claim gives a failure text
ClaimedMessage(in, model_id) ==
    CASE FirstRule(in.markers) = 1 ->
           "Rate limit reached for " \o model_id \o ". Wait ~"
              \o (IF in.hint THEN "30" ELSE "60") \o "s or switch model."
      [] FirstRule(in.markers) = 2 -> "Invalid API Key. Check your key in Settings."
      [] FirstRule(in.markers) = 3 ->
           "Permission denied. Your API key may not have access to this model."
      [] FirstRule(in.markers) = 4 ->
           "Model '" \o model_id \o "' not found. Select a different model."
      [] FirstRule(in.markers) = 5 ->
           "Content blocked by safety filters. Try a different video."
      [] OTHER -> SubSeq(in.text, 1, IF Len(in.text) > 200 THEN 200 ELSE Len(in.text))

\* C19: whatever words of the five rules a failure text holds, the error the
\* handler records is the message of the first rule, in the claimed order,
\* that has a word in the text; a text with none is recorded as it is, cut to
\* 200 characters.
C19_FirstRuleWins ==
    \A t \in DOMAIN tasks :
       (tasks[t].pc = "finally" /\ tasks[t].exc # Null) =>
          /\ \E in \in FailureInputs : in.text = tasks[t].exc
          /\ \A in \in FailureInputs :
                in.text = tasks[t].exc =>
                   /\ jobs[tasks[t].job_id].error = ClaimedMessage(in, tasks[t].model_id)
                   /\ in.markers = {} => Len(jobs[tasks[t].job_id].error) <= 200

\* C19 witness: a text with a quota and an authentication word has been
\* classified as a rate limit of the job's model.
C19_Witness ==
    \E t \in DOMAIN tasks :
       /\ tasks[t].pc = "finally"
       /\ tasks[t].exc = "failure: Quota API_KEY"
       /\ jobs[tasks[t].job_id].error
             = "Rate limit reached for gemini-pro. Wait ~60s or switch model."

\* no two submissions drew the same job id (the threads of polls aside)
NoSharedJobIds ==
    \A t, u \in DOMAIN tasks :
       (t # u /\ tasks[t].kind # "poll" /\ tasks[u].kind # "poll") =>
          tasks[t].job_id # tasks[u].job_id

\* C20 (as claimed): a poll reads the fields of the record while it holds the
\* registry lock, so the content it returns is the record's content at the
\* moment of its locked lookup -- stated for the runs in which every
\* submission drew an id of its own.
C20_PollReadsUnderLock ==
    [][ NoSharedJobIds' =>
          \A t \in DOMAIN tasks :
             JobStatusRespond(t) => JobStatusBody(t) = tasks[t].job ]_vars

\* the submissions that can have written no entry: the download jobs and the
\* AI jobs whose worker returned without having generated a text
NeverDone(t) ==
    \/ tasks[t].kind = "dl"
    \/ tasks[t].kind = "ai" /\ tasks[t].pc = "finished" /\ tasks[t].result_text = Null

\* the entry at position i of the stored history is the one an AI worker
\* composed after its done update
WrittenOnSuccess(i) ==
    \E t \in DOMAIN tasks :
       /\ tasks[t].kind = "ai"
       /\ tasks[t].pc \in AfterGeneration \ { "hist_load" }
       /\ tasks[t].job_id = load_history[i].id
       /\ tasks[t].result_text = load_history[i].result

\* no entry of the stored history carries the id of a job that never reached done
NoEntryOfNeverDone ==
    \A i \in DOMAIN load_history : \A t \in DOMAIN tasks :
       NeverDone(t) => load_history[i].id # tasks[t].job_id

\* no job id appears in two entries of the stored history
OneEntryPerId ==
    \A i, j \in DOMAIN load_history :
       i # j => load_history[i].id # load_history[j].id

\* C21 (as claimed): every entry of the stored history has the id of an AI job
\* whose record was set to done before the entry was written, no download job
\* and no AI job that failed before the done step has an entry under its id,
\* and no job id appears in more than one entry.
C21_EntriesOnSuccessOncePerJob ==
    /\ \A i \in DOMAIN load_history : WrittenOnSuccess(i)
    /\ NoEntryOfNeverDone
    /\ OneEntryPerId
====
